---- MODULE Spec2Model ----
(***************************************************************************)
(* Model of package color (src/color.go): ANSI paints, immutable Styles,   *)
(* the escape code computation and the Brush closures.                      *)
(*                                                                         *)
(* A Go string is modelled as a sequence of one-byte tokens; the control   *)
(* byte 0x1B is the token ESC.  A Style is a record [bg, fg, code].  A     *)
(* Brush is the closure of Style.Brush: it captures a copy of its Style.   *)
(***************************************************************************)
EXTENDS Naturals, Integers, Sequences, FiniteSets, TLC

\* ------------------------------------------------------------------------
\* Bounds of the model (not program constants)
\* ------------------------------------------------------------------------

\* longest text handed to a Brush, counted in chunks of Chunks
MaxChunks == 2

\* ------------------------------------------------------------------------
\* Constants of color.go
\* ------------------------------------------------------------------------

\* the byte "\033"
ESC == "ESC"

pre == <<ESC, "[">>

post == <<>>

reset == <<ESC, "[", "0", "m">>

BlackPaint == <<"0", ";", "3", "0">>

DarkRedPaint == <<"0", ";", "3", "1">>

DarkGreenPaint == <<"0", ";", "3", "2">>

DarkYellowPaint == <<"0", ";", "3", "3">>

DarkBluePaint == <<"0", ";", "3", "4">>

DarkPurplePaint == <<"0", ";", "3", "5">>

DarkCyanPaint == <<"0", ";", "3", "6">>

LightGrayPaint == <<"0", ";", "3", "7">>

DarkGrayPaint == <<"1", ";", "3", "0">>

RedPaint == <<"1", ";", "3", "1">>

GreenPaint == <<"1", ";", "3", "2">>

YellowPaint == <<"1", ";", "3", "3">>

BluePaint == <<"1", ";", "3", "4">>

PurplePaint == <<"1", ";", "3", "5">>

CyanPaint == <<"1", ";", "3", "6">>

WhitePaint == <<"1", ";", "3", "7">>

nilPaint == <<"n", "i", "l">>

\* the 16 exported paints
NamedPaints ==
    { BlackPaint, DarkRedPaint, DarkGreenPaint, DarkYellowPaint,
      DarkBluePaint, DarkPurplePaint, DarkCyanPaint, LightGrayPaint,
      DarkGrayPaint, RedPaint, GreenPaint, YellowPaint,
      BluePaint, PurplePaint, CyanPaint, WhitePaint }

\* every Paint the package itself declares
Paints == NamedPaints \cup {nilPaint}

\* ------------------------------------------------------------------------
\* Pure functions of color.go
\* ------------------------------------------------------------------------

\* the value a Go index expression that is out of range produces: a panic
Panic == <<"panic: index out of range">>

\* str[i] for a 0-based Go index i, as a one-byte string, or Panic
IndexByte(str, i) ==
    IF i + 1 \in 1..Len(str) THEN <<str[i + 1]>> ELSE Panic

\* a plausible slip: bg[len(bg)] instead of bg[len(bg)-1]
computeColorCodeOffByOne(bg, fg) ==
    IF bg = nilPaint
    THEN pre \o fg \o <<"m">> \o post
    ELSE LET bgColor == IndexByte(bg, Len(bg))
         IN  IF bgColor = Panic
             THEN Panic
             ELSE (pre \o <<"4">> \o bgColor \o <<"m">> \o post)
                  \o (pre \o fg \o <<"m">> \o post)

\* a plausible slip: the background digit taken from the front of the paint
computeColorCodeFirstByte(bg, fg) ==
    IF bg = nilPaint
    THEN pre \o fg \o <<"m">> \o post
    ELSE LET bgColor == IndexByte(bg, 0)
         IN  IF bgColor = Panic
             THEN Panic
             ELSE (pre \o <<"4">> \o bgColor \o <<"m">> \o post)
                  \o (pre \o fg \o <<"m">> \o post)

computeColorCode(bg, fg) ==
    IF bg = nilPaint
    THEN pre \o fg \o <<"m">> \o post
    ELSE LET bgColor == IndexByte(bg, Len(bg) - 1)
         IN  IF bgColor = Panic
             THEN Panic
             ELSE LET back  == pre \o <<"4">> \o bgColor \o <<"m">> \o post
                      front == pre \o fg \o <<"m">> \o post
                  IN  back \o front

NewStyle(background, foreground) ==
    LET bg == background
        fg == foreground
    IN  [bg |-> bg, fg |-> fg, code |-> computeColorCode(bg, fg)]

\* the closure returned by Style.Brush: the receiver is passed by value, so
\* the closure owns a copy of the Style
Brush(st) == [s |-> st]

\* a plausible slip: the reset sequence left out
InvokeNoReset(b, text) == b.s.code \o text

\* a Brush applied to a text (the body of the closure)
Invoke(b, text) == b.s.code \o text \o reset

NewBrush(background, foreground) == Brush(NewStyle(background, foreground))

\* the zero value of Style
ZeroStyle == [bg |-> <<>>, fg |-> <<>>, code |-> <<>>]

\* A method call on a Style is modelled by its effect on both sides of the
\* call: recv is the caller's receiver variable once the call has returned,
\* ret the returned Style.

\* a plausible slip: copied from WithForeground, the wrong field assigned
WithBackgroundWrongField(st, color) ==
    LET newS  == [st EXCEPT !.fg = color]
        newS2 == [newS EXCEPT !.code = computeColorCode(newS.bg, newS.fg)]
    IN  [recv |-> st, ret |-> newS2]

WithBackground(st, color) ==
    LET newS  == [st EXCEPT !.bg = color]
        newS2 == [newS EXCEPT !.code = computeColorCode(newS.bg, newS.fg)]
    IN  [recv |-> st, ret |-> newS2]

\* a plausible slip: the code of the copy is not recomputed
WithForegroundStale(st, color) ==
    LET newS == [st EXCEPT !.fg = color]
    IN  [recv |-> st, ret |-> newS]

\* a plausible slip: a pointer receiver updated in place
WithForegroundInPlace(st, color) ==
    LET newS  == [st EXCEPT !.fg = color]
        newS2 == [newS EXCEPT !.code = computeColorCode(newS.bg, newS.fg)]
    IN  [recv |-> newS2, ret |-> newS2]

\* a plausible slip: the new foreground segment appended to the old code
WithForegroundAppend(st, color) ==
    LET newS  == [st EXCEPT !.fg = color]
        newS2 == [newS EXCEPT !.code = st.code \o pre \o color \o <<"m">> \o post]
    IN  [recv |-> st, ret |-> newS2]

\* a plausible slip: the code rebuilt from the foreground alone
WithForegroundDropsBackground(st, color) ==
    LET newS  == [st EXCEPT !.fg = color]
        newS2 == [newS EXCEPT !.code = computeColorCode(nilPaint, newS.fg)]
    IN  [recv |-> st, ret |-> newS2]

WithForeground(st, color) ==
    LET newS  == [st EXCEPT !.fg = color]
        newS2 == [newS EXCEPT !.code = computeColorCode(newS.bg, newS.fg)]
    IN  [recv |-> st, ret |-> newS2]

\* ------------------------------------------------------------------------
\* The named brushes
\* ------------------------------------------------------------------------

\* a plausible slip: background and foreground transposed
BlackTransposed == NewBrush(BlackPaint, WhitePaint)

Black == NewBrush(WhitePaint, BlackPaint)

White == NewBrush(DarkGrayPaint, WhitePaint)

LightGray == NewBrush(nilPaint, LightGrayPaint)

Blue == NewBrush(nilPaint, BluePaint)

Cyan == NewBrush(nilPaint, CyanPaint)

Green == NewBrush(nilPaint, GreenPaint)

Purple == NewBrush(nilPaint, PurplePaint)

Red == NewBrush(nilPaint, RedPaint)

Yellow == NewBrush(nilPaint, YellowPaint)

DarkBlue == NewBrush(nilPaint, DarkBluePaint)

DarkCyan == NewBrush(nilPaint, DarkCyanPaint)

DarkGray == NewBrush(nilPaint, DarkGrayPaint)

DarkGreen == NewBrush(nilPaint, DarkGreenPaint)

DarkPurple == NewBrush(nilPaint, DarkPurplePaint)

DarkRed == NewBrush(nilPaint, DarkRedPaint)

DarkYellow == NewBrush(nilPaint, DarkYellowPaint)

BrushNames ==
    { "Black", "White", "LightGray", "Blue", "Cyan", "Green", "Purple",
      "Red", "Yellow", "DarkBlue", "DarkCyan", "DarkGray", "DarkGreen",
      "DarkPurple", "DarkRed", "DarkYellow" }

\* the exported function of the given name, called
NamedBrush(n) ==
    CASE n = "Black"      -> Black
      [] n = "White"      -> White
      [] n = "LightGray"  -> LightGray
      [] n = "Blue"       -> Blue
      [] n = "Cyan"       -> Cyan
      [] n = "Green"      -> Green
      [] n = "Purple"     -> Purple
      [] n = "Red"        -> Red
      [] n = "Yellow"     -> Yellow
      [] n = "DarkBlue"   -> DarkBlue
      [] n = "DarkCyan"   -> DarkCyan
      [] n = "DarkGray"   -> DarkGray
      [] n = "DarkGreen"  -> DarkGreen
      [] n = "DarkPurple" -> DarkPurple
      [] n = "DarkRed"    -> DarkRed
      [] n = "DarkYellow" -> DarkYellow

\* ------------------------------------------------------------------------
\* Texts handed to a Brush
\* ------------------------------------------------------------------------

\* pieces a text is made of: plain bytes, a lone ESC, a whole reset sequence
Chunks == { <<"x">>, <<"r", "e", "d">>, <<ESC>>, reset, <<"m">> }

RECURSIVE TextsOf(_)
TextsOf(n) ==
    IF n = 0
    THEN {<<>>}
    ELSE LET shorter == TextsOf(n - 1)
         IN  shorter \cup { t \o c : t \in shorter, c \in Chunks }

Texts == TextsOf(MaxChunks)

\* ------------------------------------------------------------------------
\* State
\* ------------------------------------------------------------------------

VARIABLES
    s,          \* the Style the caller holds: the receiver of the next call
    orig,       \* the caller's variable the last method was called on, after the call
    before,     \* history: the value of that variable when the call was made
    last,       \* history: the last call, [op, color]
    prevOp,     \* history: the operation before the last one
    lastBg,     \* history: the last background passed (NewStyle or WithBackground)
    lastFg,     \* history: the last foreground passed (NewStyle or WithForeground)
    named,      \* history: the background was given as an exported paint and
                \*          no call since has passed the sentinel
    baseBg,     \* history: after two WithForeground calls in a row, the
                \*          background of the Style the first was called on
    brush,      \* the Brush the caller holds
    brushFrom,  \* history: "none", or which variable brush was obtained from
    panicked,   \* a call ended in a runtime panic
    maker,      \* the function brush came from (brush program)
    text,       \* the last text handed to brush (brush program)
    out,        \* the string brush returned for it (brush program)
    painted     \* brush has been invoked (brush program)

vars == << s, orig, before, last, prevOp, lastBg, lastFg, named, baseBg,
           brush, brushFrom, panicked, maker, text, out, painted >>

styleVars == << s, orig, before, last, prevOp, lastBg, lastFg, named, baseBg >>

paintVars == << maker, text, out, painted >>

NoPaint == <<>>

\* ------------------------------------------------------------------------
\* Style program: NewStyle, then WithBackground / WithForeground / Brush
\* ------------------------------------------------------------------------

Init ==
    \E bg \in Paints, fg \in Paints :
        LET st == NewStyle(bg, fg)
        IN  /\ panicked = (st.code = Panic)
            /\ s = IF st.code = Panic THEN ZeroStyle ELSE st
            /\ orig = s
            /\ before = s
            /\ last = [op |-> "NewStyle", color |-> NoPaint]
            /\ prevOp = "none"
            /\ lastBg = bg
            /\ lastFg = fg
            /\ named = (bg \in NamedPaints)
            /\ baseBg = NoPaint
            /\ brush = Brush(ZeroStyle)
            /\ brushFrom = "none"
            /\ maker = "none"
            /\ text = <<>>
            /\ out = <<>>
            /\ painted = FALSE

\* a Brush obtained from the receiver stays with the caller for one more
\* call; an older one is let go
BrushAfterCall ==
    /\ brushFrom' = IF brushFrom = "s" THEN "orig" ELSE "none"
    /\ brush' = IF brushFrom = "s" THEN brush ELSE Brush(ZeroStyle)

\* t := s.WithBackground(color)
CallWithBackground(color) ==
    /\ ~panicked
    /\ LET r == WithBackground(s, color)
       IN  /\ panicked' = (r.ret.code = Panic)
           /\ s' = IF r.ret.code = Panic THEN s ELSE r.ret
           /\ orig' = r.recv
    /\ before' = s
    /\ last' = [op |-> "WithBackground", color |-> color]
    /\ prevOp' = last.op
    /\ lastBg' = color
    /\ lastFg' = lastFg
    /\ named' = (color \in NamedPaints)
    /\ baseBg' = NoPaint
    /\ BrushAfterCall
    /\ UNCHANGED paintVars

\* t := s.WithForeground(color)
CallWithForeground(color) ==
    /\ ~panicked
    /\ LET r == WithForeground(s, color)
       IN  /\ panicked' = (r.ret.code = Panic)
           /\ s' = IF r.ret.code = Panic THEN s ELSE r.ret
           /\ orig' = r.recv
    /\ before' = s
    /\ last' = [op |-> "WithForeground", color |-> color]
    /\ prevOp' = last.op
    /\ lastBg' = lastBg
    /\ lastFg' = color
    /\ named' = (named /\ color \in NamedPaints)
    /\ baseBg' = IF last.op = "WithForeground" THEN before.bg ELSE NoPaint
    /\ BrushAfterCall
    /\ UNCHANGED paintVars

\* b := s.Brush()
CallBrush ==
    /\ ~panicked
    /\ brushFrom # "s"
    /\ brush' = Brush(s)
    /\ brushFrom' = "s"
    /\ UNCHANGED << styleVars, panicked, paintVars >>

Next ==
    \/ \E color \in Paints : CallWithBackground(color)
    \/ \E color \in Paints : CallWithForeground(color)
    \/ CallBrush

Spec == Init /\ [][Next]_vars

\* ------------------------------------------------------------------------
\* Brush program: a brush from NewBrush or from a named function, invoked
\* ------------------------------------------------------------------------

InitBrush ==
    \E bg \in Paints, fg \in Paints :
        LET b == NewBrush(bg, fg)
        IN  /\ panicked = (b.s.code = Panic)
            /\ brush = b
            /\ s = b.s
            /\ maker = "NewBrush"
            /\ orig = s
            /\ before = s
            /\ last = [op |-> "NewStyle", color |-> NoPaint]
            /\ prevOp = "none"
            /\ lastBg = bg
            /\ lastFg = fg
            /\ named = (bg \in NamedPaints)
            /\ baseBg = NoPaint
            /\ brushFrom = "s"
            /\ text = <<>>
            /\ out = <<>>
            /\ painted = FALSE

\* brush := color.<n>()
CallNamed(n) ==
    /\ ~panicked
    /\ ~painted
    /\ maker = "NewBrush"
    /\ LET b == NamedBrush(n)
       IN  /\ panicked' = (b.s.code = Panic)
           /\ brush' = b
           /\ s' = b.s
           /\ orig' = b.s
           /\ before' = b.s
           /\ lastBg' = b.s.bg
           /\ lastFg' = b.s.fg
           /\ named' = (b.s.bg \in NamedPaints)
    /\ maker' = n
    /\ UNCHANGED << last, prevOp, baseBg, brushFrom, text, out, painted >>

\* out := brush(t)
CallInvoke(t) ==
    /\ ~panicked
    /\ text' = t
    /\ out' = Invoke(brush, t)
    /\ painted' = TRUE
    /\ UNCHANGED << styleVars, brush, brushFrom, panicked, maker >>

NextBrush ==
    \/ \E n \in BrushNames : CallNamed(n)
    \/ \E t \in Texts : CallInvoke(t)

SpecBrush == InitBrush /\ [][NextBrush]_vars

\* ------------------------------------------------------------------------
\* Reading escape sequences back (used to state the properties)
\* ------------------------------------------------------------------------

Digits == { "0", "1", "2", "3", "4", "5", "6", "7", "8", "9" }

HueDigits == { "0", "1", "2", "3", "4", "5", "6", "7" }

\* the bytes the package can put into a code
CodeBytes == Digits \cup { ESC, "[", ";", "m", "n", "i", "l" }

ParseError == << <<"parse error">> >>

\* position of the first "m" of str at or after position k, 0 if none
FirstM(str, k) ==
    LET ms == { j \in k..Len(str) : str[j] = "m" }
    IN  IF ms = {} THEN 0 ELSE CHOOSE j \in ms : \A j2 \in ms : j <= j2

\* str read as a concatenation of sequences ESC [ <params> m: the sequence
\* of their <params>, or ParseError when str is not such a concatenation
RECURSIVE ParseSGR(_)
ParseSGR(str) ==
    IF str = <<>>
    THEN <<>>
    ELSE IF Len(str) >= 3 /\ str[1] = ESC /\ str[2] = "[" /\ FirstM(str, 3) # 0
         THEN LET k    == FirstM(str, 3)
                  rest == ParseSGR(SubSeq(str, k + 1, Len(str)))
              IN  IF rest = ParseError
                  THEN ParseError
                  ELSE << SubSeq(str, 3, k - 1) >> \o rest
         ELSE ParseError

\* <params> is a non-empty list of numbers separated by ";"
WellFormedParams(ps) ==
    /\ Len(ps) > 0
    /\ \A j \in 1..Len(ps) : ps[j] \in Digits \cup {";"}
    /\ ps[1] # ";" /\ ps[Len(ps)] # ";"
    /\ \A j \in 1..(Len(ps) - 1) : ~(ps[j] = ";" /\ ps[j + 1] = ";")

\* <intensity>;<hue> with intensity 0 or 1 and hue 30..37
IsForegroundParams(ps) ==
    /\ Len(ps) = 4
    /\ ps[1] \in {"0", "1"}
    /\ ps[2] = ";"
    /\ ps[3] = "3"
    /\ ps[4] \in HueDigits

\* 4<d> with d a digit 0..7
IsBackgroundParams(ps) ==
    /\ Len(ps) = 2
    /\ ps[1] = "4"
    /\ ps[2] \in HueDigits

\* the number of escape sequences code consists of, 0 when it is not a
\* concatenation of escape sequences
Segments(code) ==
    LET segs == ParseSGR(code)
    IN  IF segs = ParseError THEN 0 ELSE Len(segs)

ValidStyle(st) ==
    /\ st.bg \in Paints
    /\ st.fg \in Paints
    /\ st.code # Panic
    /\ Len(st.code) > 0
    /\ \A j \in 1..Len(st.code) : st.code[j] \in CodeBytes

\* ------------------------------------------------------------------------
\* Properties
\* ------------------------------------------------------------------------

\* C1: in every Style reached by NewStyle followed by WithBackground and
\* WithForeground calls, the stored code is computeColorCode of the Style's
\* current bg and fg: the code is never stale.  The same holds of the Style
\* the call was made on and of the Style a Brush has captured.
CodeIsFunctionOfColors ==
    /\ s.code = computeColorCode(s.bg, s.fg)
    /\ orig.code = computeColorCode(orig.bg, orig.fg)
    /\ brushFrom # "none" => brush.s.code = computeColorCode(brush.s.bg, brush.s.fg)

\* a WithForeground call that changed the foreground, hence the code
CodeRecomputed ==
    /\ last.op = "WithForeground"
    /\ before.fg # last.color
    /\ s.code # before.code

\* C2: WithForeground(c) or WithBackground(c) on a Style never changes it:
\* after the call the receiver has the bg, fg and code it had before, a
\* Brush obtained from it before the call or after it produces the old
\* code, and the returned Style alone carries the new colour.
ReceiverUnchanged ==
    last.op \in {"WithBackground", "WithForeground"} =>
        /\ orig.bg = before.bg
        /\ orig.fg = before.fg
        /\ orig.code = before.code
        /\ brushFrom = "orig" =>
              \A t \in Texts : Invoke(brush, t) = before.code \o t \o reset
        /\ \A t \in Texts : Invoke(Brush(orig), t) = before.code \o t \o reset
        /\ last.op = "WithBackground" => s.bg = last.color /\ s.fg = before.fg
        /\ last.op = "WithForeground" => s.fg = last.color /\ s.bg = before.bg

\* a call that returned a Style of another code while the caller holds a
\* Brush of the receiver
ReceiverKeptWhileResultDiffers ==
    /\ last.op = "WithForeground"
    /\ brushFrom = "orig"
    /\ s.code # before.code
    /\ s.fg # before.fg

\* C3: s.WithForeground(X).WithForeground(Y) has the code of
\* NewStyle(s.bg, Y), whatever X was.
ForegroundRoundTrip ==
    baseBg # NoPaint =>
        /\ last.op = "WithForeground"
        /\ prevOp = "WithForeground"
        /\ s.code = NewStyle(baseBg, last.color).code

\* two WithForeground calls in a row with different paints X and Y
TwoForegroundsInARow ==
    /\ baseBg # NoPaint
    /\ prevOp = "WithForeground"
    /\ last.op = "WithForeground"
    /\ before.fg # last.color

\* C4: for every background (named or sentinel), every named foreground and
\* every text, the string the Brush returns is a prefix of exactly one or
\* two well-formed escape sequences ESC[<params>m, then the text as it was
\* given, then the reset sequence ESC[0m; for the empty text it is the
\* prefix immediately followed by the reset sequence.
BrushOutputShape ==
    (painted /\ s.fg \in NamedPaints) =>
        LET n      == Len(out) - Len(text) - Len(reset)
            prefix == SubSeq(out, 1, n)
            segs   == ParseSGR(prefix)
        IN  /\ n > 0
            /\ segs # ParseError
            /\ Len(segs) \in {1, 2}
            /\ \A j \in 1..Len(segs) : WellFormedParams(segs[j])
            /\ SubSeq(out, n + 1, n + Len(text)) = text
            /\ SubSeq(out, n + Len(text) + 1, Len(out)) = <<ESC, "[", "0", "m">>
            /\ text = <<>> => out = prefix \o <<ESC, "[", "0", "m">>

\* a Brush with a named background invoked on a text that is itself a reset
\* sequence followed by an ESC byte
BrushInvokedOnEscapes ==
    /\ painted
    /\ s.bg \in NamedPaints
    /\ s.fg \in NamedPaints
    /\ text = <<ESC, "[", "0", "m", ESC>>

\* C5: with a named foreground, the code has one segment exactly when the
\* background is the sentinel: then it is ESC[<intensity>;<hue>m and has no
\* 4-prefixed segment; with a named background it is ESC[4<d>m followed by
\* ESC[<intensity>;<hue>m, d being the last byte of the background paint
\* and a digit 0..7.
CodeShape ==
    s.fg \in NamedPaints =>
        LET segs == ParseSGR(s.code)
        IN  /\ segs # ParseError
            /\ (Len(segs) = 1) <=> (s.bg = nilPaint)
            /\ s.bg = nilPaint =>
                  /\ Len(segs) = 1
                  /\ IsForegroundParams(segs[1])
                  /\ segs[1] = s.fg
                  /\ ~IsBackgroundParams(segs[1])
            /\ s.bg \in NamedPaints =>
                  /\ Len(segs) = 2
                  /\ segs[1] = <<"4", s.bg[Len(s.bg)]>>
                  /\ IsBackgroundParams(segs[1])
                  /\ IsForegroundParams(segs[2])
                  /\ segs[2] = s.fg
                  /\ s.code = <<ESC, "[", "4", s.bg[Len(s.bg)], "m">>
                              \o <<ESC, "[">> \o s.fg \o <<"m">>

\* a named background just put over the sentinel, with a named foreground
BackgroundSegmentAdded ==
    /\ last.op = "WithBackground"
    /\ before.bg = nilPaint
    /\ s.bg \in NamedPaints
    /\ s.fg \in NamedPaints
    /\ Segments(s.code) = 2

\* the paint that has the name of the brush
PaintOfName(n) ==
    CASE n = "LightGray"  -> LightGrayPaint
      [] n = "Blue"       -> BluePaint
      [] n = "Cyan"       -> CyanPaint
      [] n = "Green"      -> GreenPaint
      [] n = "Purple"     -> PurplePaint
      [] n = "Red"        -> RedPaint
      [] n = "Yellow"     -> YellowPaint
      [] n = "DarkBlue"   -> DarkBluePaint
      [] n = "DarkCyan"   -> DarkCyanPaint
      [] n = "DarkGray"   -> DarkGrayPaint
      [] n = "DarkGreen"  -> DarkGreenPaint
      [] n = "DarkPurple" -> DarkPurplePaint
      [] n = "DarkRed"    -> DarkRedPaint
      [] n = "DarkYellow" -> DarkYellowPaint

\* C6: the named brushes bind (background, foreground) in that order:
\* Red() is bright red on the sentinel background and Red()("red") is
\* ESC[1;31m red ESC[0m; Black() is black on white and Black()("x") is
\* ESC[47m ESC[0;30m x ESC[0m; every named brush other than Black and White
\* has the sentinel background and the paint of its own name as foreground.
NamedBrushesBindTheirPaints ==
    /\ maker \in BrushNames \ {"Black", "White"} =>
          /\ brush.s.bg = nilPaint
          /\ brush.s.fg = PaintOfName(maker)
    /\ maker = "Red" =>
          /\ brush.s.fg = <<"1", ";", "3", "1">>
          /\ (painted /\ text = <<"r", "e", "d">>) =>
                out = <<ESC, "[", "1", ";", "3", "1", "m", "r", "e", "d",
                        ESC, "[", "0", "m">>
    /\ maker = "Black" =>
          /\ brush.s.fg = BlackPaint
          /\ brush.s.bg = WhitePaint
          /\ (painted /\ text = <<"x">>) =>
                out = <<ESC, "[", "4", "7", "m", ESC, "[", "0", ";", "3", "0", "m",
                        "x", ESC, "[", "0", "m">>

\* Black() invoked on "x"
BlackInvokedOnX ==
    /\ maker = "Black"
    /\ painted
    /\ text = <<"x">>

\* C7: White() is white text on a dark gray background: the background
\* segment of its code differs from the background segment a BlackPaint
\* background gives, the intensity of the background paint being carried
\* into the code as well as its hue.
WhiteBackgroundIsDarkGray ==
    maker = "White" =>
        /\ brush.s.bg = DarkGrayPaint
        /\ brush.s.fg = WhitePaint
        /\ ParseSGR(brush.s.code)[1] # ParseSGR(NewStyle(BlackPaint, brush.s.fg).code)[1]

\* C8: with backgrounds and foregrounds among the 16 named paints and the
\* sentinel, no call ends in a runtime panic and every Style held is valid:
\* its fields are paints of the package and its code is a non-empty byte
\* string; a Brush of it returns a byte string for every text.
NoPanicNoInvalidStyle ==
    /\ ~panicked
    /\ ValidStyle(s)
    /\ ValidStyle(orig)
    /\ brushFrom # "none" => ValidStyle(brush.s)
    /\ \A t \in Texts :
          LET o == Invoke(Brush(s), t)
          IN  /\ Len(o) = Len(s.code) + Len(t) + 4
              /\ \A j \in 1..Len(o) : o[j] # Panic[1]

\* the index expression bg[len(bg)-1] has been evaluated, in a chain in
\* which the sentinel was passed as a foreground
IndexEvaluatedInChain ==
    /\ last.op = "WithBackground"
    /\ last.color \in NamedPaints
    /\ prevOp = "WithForeground"
    /\ s.fg = nilPaint
    /\ brushFrom = "orig"

\* C9: a Style is determined by the last background and the last foreground
\* passed, whatever the order and the history of the calls: it equals
\* NewStyle(last background, last foreground) in bg, fg and code.
StyleIsLastColors ==
    LET n == NewStyle(lastBg, lastFg)
    IN  /\ s.bg = n.bg
        /\ s.fg = n.fg
        /\ s.code = n.code

\* a background set after a foreground, both changing the Style
BackgroundAfterForeground ==
    /\ prevOp = "WithForeground"
    /\ last.op = "WithBackground"
    /\ s.bg # before.bg
    /\ s.bg = lastBg
    /\ s.fg = lastFg

\* C10: once the background has been given as an exported paint, every
\* Style reached by further calls with exported paints has a code of two
\* segments whose first is 4-prefixed; a code of one segment is only held
\* by Styles whose background has not been given as an exported paint.
SentinelNotRestorable ==
    LET segs == ParseSGR(s.code)
    IN  /\ named =>
              /\ segs # ParseError
              /\ Len(segs) = 2
              /\ segs[1][1] = "4"
        /\ Segments(s.code) = 1 => ~named

\* a named background set, then a call with an exported foreground
ForegroundAfterNamedBackground ==
    /\ named
    /\ prevOp = "WithBackground"
    /\ last.op = "WithForeground"
    /\ last.color \in NamedPaints
    /\ Segments(s.code) = 2
====
